---------------------------- MODULE Spec2Model ----------------------------
(***************************************************************************)
(* ECB exchange-rate sensors of home-assistant-ecb-rates.                  *)
(*                                                                         *)
(* Two sensor variants are modelled, one sensor at a time:                 *)
(*   "exchange_rates"  custom_components/exchange_rates/sensor.py          *)
(*   "ecb_exrates"     custom_components/ecb_exrates/sensor.py             *)
(*                                                                         *)
(* async_update is a coroutine.  It is modelled by one action per stretch  *)
(* of code between two suspension points (session.get, response.text, the  *)
(* exits of the two `async with` blocks); everything between two awaits    *)
(* runs without interleaving on the event loop and is one atomic step.     *)
(*                                                                         *)
(* Numbers.  Rates of the feed are floats with two decimals at most; they  *)
(* are held as integers in hundredths.  The quotient _rate is held as the  *)
(* exact fraction <<n, d>> in lowest terms, and round(_rate, precision) is *)
(* round-half-to-even of that fraction, in units of 10^-precision.  The    *)
(* rate strings of the model are chosen so that no quotient is a decimal   *)
(* tie at the precisions of the model: there, rounding the binary float    *)
(* and rounding the exact fraction give the same decimal.                  *)
(***************************************************************************)
EXTENDS Integers, Sequences, FiniteSets, TLC

VARIABLES
    variant,        \* which sensor.py the sensor is an instance of
    currency_pair,  \* self._currency_pair, as tokens: <<"USD", "/", "JPY">>
    rate,           \* self._rate, a fraction <<n, d>>
    available,      \* self._available (exchange_rates only)
    added,          \* async_add_entities has been called by the setup
    pc,             \* per invocation of async_update: where it is suspended
    status,         \* per invocation: response.status, 0 before the response
    exc,            \* per invocation: the exception being propagated
    rates,          \* the local `rates` of the invocation that last looked
                    \* the pair up in it
    last,           \* how the invocation that last came to its outcome
                    \* ended: "ok", "miss", "status" or the exception caught
    populated       \* some invocation has stored a quotient

vars == <<variant, currency_pair, rate, available, added,
          pc, status, exc, rates, last, populated>>

config == <<variant, currency_pair>>

-----------------------------------------------------------------------------
(* Bounds of the model *)

\* leaves per feed
MaxLeaves == 2
\* invocations of async_update of one sensor that can be alive at once
MaxInFlight == 2

(* Program constants *)

\* config.get("precision", 4)
DefaultPrecision == 4
\* the HTTP status async_update accepts
HTTP_OK == 200
Variants == {"exchange_rates", "ecb_exrates"}
Precisions == {2, DefaultPrecision}
\* 500 stands for every status other than 200
Statuses == {HTTP_OK, 500}
Slots == 1..MaxInFlight

\* configured pairs, tokenised: "USD/JPY", "EUR/USD", "XYZ/USD", "USD"
Pairs == { <<"USD", "/", "JPY">>, <<"EUR", "/", "USD">>,
           <<"XYZ", "/", "USD">>, <<"USD">> }

\* per-currency leaves <Cube currency=".." rate=".."/> a feed can hold
Leaves == { <<"USD", "1.10">>, <<"USD", "0">>, <<"USD", "abc">>, <<"USD", "">>,
            <<"JPY", "160.0">>, <<"JPY", "0">>, <<"JPY", "abc">>,
            <<"EUR", "2.5">> }

LeafSeqs == UNION { [1..n -> Leaves] : n \in 0..MaxLeaves }

\* response bodies: not XML at all, XML without the nested Cube structure,
\* XML with one dated Cube holding the leaves
Bodies == { [xml |-> "malformed", leaves |-> <<>>],
            [xml |-> "nocube", leaves |-> <<>>] }
          \cup { [xml |-> "cubes", leaves |-> ls] : ls \in LeafSeqs }

-----------------------------------------------------------------------------
(* Pure functions *)

\* float(rate), in hundredths; -1 stands for ValueError
ParseFloat(s) ==
    CASE s = "1.10"  -> 110
      [] s = "160.0" -> 16000
      [] s = "2.5"   -> 250
      [] s = "0"     -> 0
      [] OTHER       -> -1

\* the float 1.0 of `rates = {"EUR": 1.0}`, in hundredths
EurRate == [EUR |-> 100]

RECURSIVE Gcd(_, _)
Gcd(a, b) == IF b = 0 THEN a ELSE Gcd(b, a % b)

\* the float n / d (d > 0), as a fraction in lowest terms
Quotient(n, d) == LET g == Gcd(n, d) IN <<n \div g, d \div g>>

\* the float 1.0 that __init__ and the lookup miss store in _rate
One == <<1, 1>>

RECURSIVE Pow10(_)
Pow10(p) == IF p = 0 THEN 1 ELSE 10 * Pow10(p - 1)

\* round(x, p) of the float x = f[1] / f[2]: in units of 10^-p, ties to even
Round(f, p) ==
    LET s == f[1] * Pow10(p)
        q == s \div f[2]
        r == s % f[2]
    IN  IF 2 * r > f[2] \/ (2 * r = f[2] /\ q % 2 = 1) THEN q + 1 ELSE q

\* rates[currency] = v
Put(t, currency, v) ==
    [c \in DOMAIN t \cup {currency} |-> IF c = currency THEN v ELSE t[c]]

\* str.split("/") on the tokens of a pair string
RECURSIVE Split(_)
Split(toks) ==
    IF toks = <<>> THEN <<"">>
    ELSE IF Head(toks) = "/" THEN <<"">> \o Split(Tail(toks))
    ELSE LET rest == Split(Tail(toks))
         IN  <<Head(toks) \o Head(rest)>> \o Tail(rest)

\* the leaves the variant's XPath finds in a parsed body
FoundLeaves(body) == IF body.xml = "cubes" THEN body.leaves ELSE <<>>

\* exchange_rates: the loop over the leaves; a ValueError of float() is
\* caught inside the loop and the leaf skipped
RECURSIVE LoopSkipping(_, _)
LoopSkipping(t, ls) ==
    IF ls = <<>> THEN [table |-> t, error |-> "none"]
    ELSE LET currency == Head(ls)[1]
             rt       == Head(ls)[2]
         IN  IF currency # "" /\ rt # "" /\ ParseFloat(rt) >= 0
             THEN LoopSkipping(Put(t, currency, ParseFloat(rt)), Tail(ls))
             ELSE LoopSkipping(t, Tail(ls))

\* ecb_exrates: the loop over the leaves; a ValueError of float() leaves
\* the loop and the whole try block
RECURSIVE LoopRaising(_, _)
LoopRaising(t, ls) ==
    IF ls = <<>> THEN [table |-> t, error |-> "none"]
    ELSE LET currency == Head(ls)[1]
             rt       == Head(ls)[2]
         IN  IF currency # "" /\ rt # ""
             THEN IF ParseFloat(rt) >= 0
                  THEN LoopRaising(Put(t, currency, ParseFloat(rt)), Tail(ls))
                  ELSE [table |-> t, error |-> "ValueError(float)"]
             ELSE LoopRaising(t, Tail(ls))

\* ET.fromstring and the building of the local `rates`
BuildRates(v, body) ==
    IF body.xml = "malformed" THEN [table |-> EurRate, error |-> "ParseError"]
    ELSE IF v = "exchange_rates" THEN LoopSkipping(EurRate, FoundLeaves(body))
    ELSE LoopRaising(EurRate, FoundLeaves(body))

\* Evaluate with the quotient taken the other way round, quote over base
EvaluateInverted(v, pair, t) ==
    LET codes == Split(pair)
    IN  IF v = "exchange_rates" /\ Len(codes) # 2
        THEN [kind |-> "ValueError(unpack)", rate |-> One]
        ELSE IF Len(codes) = 2 /\ codes[1] \in DOMAIN t /\ codes[2] \in DOMAIN t
        THEN IF t[codes[1]] = 0
             THEN [kind |-> "ZeroDivisionError", rate |-> One]
             ELSE [kind |-> "ok", rate |-> Quotient(t[codes[2]], t[codes[1]])]
        ELSE [kind |-> "miss", rate |-> One]

\* the lookup of the pair in `rates` and the division:
\* kind "ok" (quotient stored), "miss" (1.0 stored) or the exception raised
Evaluate(v, pair, t) ==
    LET codes == Split(pair)
    IN  IF v = "exchange_rates" /\ Len(codes) # 2
        THEN [kind |-> "ValueError(unpack)", rate |-> One]
        ELSE IF Len(codes) = 2 /\ codes[1] \in DOMAIN t /\ codes[2] \in DOMAIN t
        THEN IF t[codes[2]] = 0
             THEN [kind |-> "ZeroDivisionError", rate |-> One]
             ELSE [kind |-> "ok", rate |-> Quotient(t[codes[1]], t[codes[2]])]
        ELSE [kind |-> "miss", rate |-> One]

\* async_update from the received body of a status-200 response to its
\* assignments: the table built, how the body ends, and the rate it stores
Process(v, pair, body) ==
    LET b == BuildRates(v, body)
    IN  IF b.error # "none"
        THEN [table |-> b.table, kind |-> b.error, rate |-> One]
        ELSE LET e == Evaluate(v, pair, b.table)
             IN  [table |-> b.table, kind |-> e.kind, rate |-> e.rate]

\* what the bodies a response can carry come to, per variant and pair
Processed ==
    [v \in Variants, pair \in Pairs |-> {Process(v, pair, b) : b \in Bodies}]

\* the outcomes that are an exception caught by `except Exception`
Exceptions == {"ClientError", "ParseError", "ValueError(float)",
               "ValueError(unpack)", "ZeroDivisionError"}

-----------------------------------------------------------------------------
(* The sensor as the host sees it *)

\* the `state` property of a sensor configured with precision p.  The
\* precision is set once by __init__ and read by `state` alone, so it is a
\* parameter here rather than a variable.
state(p) == Round(rate, p)

\* the `available` property: exchange_rates returns self._available;
\* ecb_exrates does not define it and inherits the Entity default, True
IsAvailable == IF variant = "exchange_rates" THEN available ELSE TRUE

TypeOK ==
    /\ variant \in Variants
    /\ currency_pair \in Pairs
    /\ rate \in Nat \X (Nat \ {0})
    /\ available \in BOOLEAN
    /\ added \in BOOLEAN
    /\ pc \in [Slots -> {"idle", "get", "text", "close", "unwind"}]
    /\ status \in [Slots -> Statuses \cup {0}]
    /\ exc \in [Slots -> Exceptions \cup {"none"}]
    /\ last \in Exceptions \cup {"none", "ok", "miss", "status"}
    /\ populated \in BOOLEAN

-----------------------------------------------------------------------------
(* Construction *)

\* ECBExchangeRateSensor.__init__ for one configured pair; no invocation of
\* async_update exists yet
Init ==
    /\ variant \in Variants
    /\ currency_pair \in Pairs
    /\ rate = One
    /\ available = TRUE
    /\ added = FALSE
    /\ pc = [u \in Slots |-> "idle"]
    /\ status = [u \in Slots |-> 0]
    /\ exc = [u \in Slots |-> "none"]
    /\ rates = EurRate
    /\ last = "none"
    /\ populated = FALSE

-----------------------------------------------------------------------------
(* Scheduling of async_update by the host *)

Idle == {u \in Slots : pc[u] = "idle"}

InFlight == {u \in Slots : pc[u] # "idle"}

\* the call of async_update: the coroutine runs to `await session.get`
Call ==
    /\ Idle # {}
    /\ LET u == CHOOSE i \in Idle : \A j \in Idle : i <= j
       IN  /\ pc' = [pc EXCEPT ![u] = "get"]
           /\ UNCHANGED <<status, exc>>

\* async_add_entities: exchange_rates passes update_before_add=True, and
\* the host calls async_update once before it adds the entity
async_add_entities ==
    /\ ~added
    /\ added' = TRUE
    /\ IF variant = "exchange_rates"
       THEN Call
       ELSE UNCHANGED <<pc, status, exc>>
    /\ UNCHANGED <<config, rate, available, rates, last, populated>>

\* exchange_rates: the callback registered by async_track_time_interval.
\* The interval timer fires whether or not an earlier invocation has
\* returned; async_update holds no lock and no in-progress flag.
async_track_time_interval ==
    /\ variant = "exchange_rates"
    /\ added
    /\ Call
    /\ UNCHANGED <<config, rate, available, added, rates, last, populated>>

\* ecb_exrates: the sensor registers no timer and leaves should_poll at
\* its default; the host polls the entity, one update at a time
HostPoll ==
    /\ variant = "ecb_exrates"
    /\ added
    /\ InFlight = {}
    /\ Call
    /\ UNCHANGED <<config, rate, available, added, rates, last, populated>>

-----------------------------------------------------------------------------
(* async_update: what each branch assigns.  s is the sensor's            *)
(* [rate, available] before the branch, the value is the one after it.   *)

\* `if response.status != 200:` exchange_rates clears _available and
\* returns; ecb_exrates only logs and returns
StatusNot200(v, s) ==
    IF v = "exchange_rates"
    THEN [rate |-> s.rate, available |-> FALSE]
    ELSE s

\* an except clause that also resets the rate, as the lookup miss does
ExceptClauseResetting(v, s) ==
    IF v = "exchange_rates"
    THEN [rate |-> One, available |-> FALSE]
    ELSE [rate |-> One, available |-> s.available]

\* an except clause that only logs in both variants
ExceptClauseSilent(v, s) == s

\* `except Exception as e:` exchange_rates clears _available;
\* ecb_exrates only logs
ExceptClause(v, s) ==
    IF v = "exchange_rates"
    THEN [rate |-> s.rate, available |-> FALSE]
    ELSE s

\* a lookup that scales the stored rate (`self._rate *= ...`) instead of
\* replacing it
PublishAccumulating(v, s, res) ==
    [rate |-> Quotient(s.rate[1] * res.rate[1], s.rate[2] * res.rate[2]),
     available |-> IF v = "exchange_rates" THEN res.kind = "ok" ELSE s.available]

\* the two branches of the lookup: the quotient (exchange_rates also sets
\* _available) or the reset to 1.0 (exchange_rates also clears _available)
Publish(v, s, res) ==
    IF v = "exchange_rates"
    THEN [rate |-> res.rate, available |-> (res.kind = "ok")]
    ELSE [rate |-> res.rate, available |-> s.available]

\* the sensor's attributes _rate and _available
Sensor == [rate |-> rate, available |-> available]

Assign(s) ==
    /\ rate' = s.rate
    /\ available' = s.available

-----------------------------------------------------------------------------
(* async_update: one action per stretch between suspension points *)

\* session.get raises (network failure): the exception leaves the
\* `async with` blocks, whose exits are awaited, before it is caught
GetRaises(u) ==
    /\ pc[u] = "get"
    /\ pc' = [pc EXCEPT ![u] = "unwind"]
    /\ exc' = [exc EXCEPT ![u] = "ClientError"]
    /\ UNCHANGED <<config, rate, available, added, status, rates, last, populated>>

\* session.get returns a response.  exchange_rates tests the status at
\* once; ecb_exrates first awaits response.text()
GetReturns(u, st) ==
    /\ pc[u] = "get"
    /\ status' = [status EXCEPT ![u] = st]
    /\ IF variant = "exchange_rates" /\ st # HTTP_OK
       THEN /\ Assign(StatusNot200(variant, Sensor))
            /\ last' = "status"
            /\ pc' = [pc EXCEPT ![u] = "close"]
       ELSE /\ pc' = [pc EXCEPT ![u] = "text"]
            /\ UNCHANGED <<rate, available, last>>
    /\ UNCHANGED <<config, added, exc, rates, populated>>

\* response.text() raises
TextRaises(u) ==
    /\ pc[u] = "text"
    /\ pc' = [pc EXCEPT ![u] = "unwind"]
    /\ exc' = [exc EXCEPT ![u] = "ClientError"]
    /\ UNCHANGED <<config, rate, available, added, status, rates, last, populated>>

\* response.text() returns a body, which the code processes to res: from
\* there to the end of the inner `async with` block nothing is awaited
TextReturns(u, res) ==
    /\ pc[u] = "text"
    /\ IF status[u] # HTTP_OK
       THEN /\ Assign(StatusNot200(variant, Sensor))
            /\ last' = "status"
            /\ pc' = [pc EXCEPT ![u] = "close"]
            /\ UNCHANGED <<exc, rates, populated>>
       ELSE IF res.kind \in Exceptions
            THEN /\ pc' = [pc EXCEPT ![u] = "unwind"]
                 /\ exc' = [exc EXCEPT ![u] = res.kind]
                 /\ UNCHANGED <<rate, available, last, rates, populated>>
            ELSE /\ Assign(Publish(variant, Sensor, res))
                 /\ rates' = res.table
                 /\ last' = res.kind
                 /\ populated' = (populated \/ res.kind = "ok")
                 /\ pc' = [pc EXCEPT ![u] = "close"]
                 /\ UNCHANGED exc
    /\ UNCHANGED <<config, added, status>>

\* a normal return that sets _available after the `async with` blocks
\* instead of inside them
CloseSettingAvailable(u) ==
    /\ pc[u] = "close"
    /\ pc' = [pc EXCEPT ![u] = "idle"]
    /\ status' = [status EXCEPT ![u] = 0]
    /\ available' = TRUE
    /\ UNCHANGED <<config, rate, added, exc, rates, last, populated>>

\* the exits of the two `async with` blocks on the way to a normal return
Close(u) ==
    /\ pc[u] = "close"
    /\ pc' = [pc EXCEPT ![u] = "idle"]
    /\ status' = [status EXCEPT ![u] = 0]
    /\ UNCHANGED <<config, rate, available, added, exc, rates, last, populated>>

\* the exits of the `async with` blocks with an exception in flight, then
\* the except clause; async_update returns normally
Except(u) ==
    /\ pc[u] = "unwind"
    /\ Assign(ExceptClause(variant, Sensor))
    /\ last' = exc[u]
    /\ pc' = [pc EXCEPT ![u] = "idle"]
    /\ status' = [status EXCEPT ![u] = 0]
    /\ exc' = [exc EXCEPT ![u] = "none"]
    /\ UNCHANGED <<config, added, rates, populated>>

Next ==
    \/ async_add_entities
    \/ async_track_time_interval
    \/ HostPoll
    \/ \E u \in Slots : GetRaises(u)
    \/ \E u \in Slots, st \in Statuses : GetReturns(u, st)
    \/ \E u \in Slots : TextRaises(u)
    \/ \E u \in Slots, res \in Processed[variant, currency_pair] :
          TextReturns(u, res)
    \/ \E u \in Slots : Close(u)
    \/ \E u \in Slots : Except(u)

Spec == Init /\ [][Next]_vars

-----------------------------------------------------------------------------
(* One whole call of async_update, for calls that do not overlap *)

\* what one call can meet: session.get raises; a response arrives and
\* response.text() raises; a response arrives with a body, which a
\* status-200 call processes to res
NoBody == [table |-> EurRate, kind |-> "none", rate |-> One]

Responses(v, pair) ==
    { [at |-> "get", status |-> 0, res |-> NoBody] }
    \cup { [at |-> "text", status |-> st, res |-> NoBody] : st \in Statuses }
    \cup { [at |-> "end", status |-> st, res |-> r]
           : st \in Statuses, r \in Processed[v, pair] }

\* the sensor after a call that starts from s and meets resp
async_update(v, s, resp) ==
    IF resp.at = "get" THEN ExceptClause(v, s)
    ELSE IF v = "exchange_rates" /\ resp.status # HTTP_OK THEN StatusNot200(v, s)
    ELSE IF resp.at = "text" THEN ExceptClause(v, s)
    ELSE IF resp.status # HTTP_OK THEN StatusNot200(v, s)
    ELSE IF resp.res.kind \in Exceptions THEN ExceptClause(v, s)
    ELSE Publish(v, s, resp.res)

-----------------------------------------------------------------------------
(* Claims *)

Failures == Exceptions \cup {"status"}

\* the codes of the configured pair
Codes == Split(currency_pair)

\* both codes of the pair are in the table that was looked up last
FoundBoth ==
    Len(Codes) = 2 /\ Codes[1] \in DOMAIN rates /\ Codes[2] \in DOMAIN rates

\* a step in which an invocation comes to its outcome is the step of a
\* whole call that starts in the state before the step
OutcomeStepIsACall ==
    [][(\E u \in Slots : /\ pc[u] \in {"get", "text", "unwind"}
                         /\ pc'[u] \in {"close", "idle"}) =>
        \E resp \in Responses(variant, currency_pair) :
            Sensor' = async_update(variant, Sensor, resp)]_vars

\* invocation u takes the step in which its failure is handled
FailureStep(u) ==
    \/ pc[u] \in {"get", "text"} /\ pc'[u] = "unwind"
    \/ pc[u] \in {"get", "text"} /\ pc'[u] = "close" /\ last' = "status"
    \/ pc[u] = "unwind" /\ pc'[u] = "idle"

\* C1: in both variants, no step in which an invocation meets or handles a
\* non-200 status or an exception changes _rate: a failed update leaves the
\* rate as it was (1.0 if nothing was stored before).
C1_FailureKeepsRate ==
    [][(\E u \in Slots : FailureStep(u)) => rate' = rate]_vars

\* a failed update has left a rate other than the default in place
C1_Witness == last \in Failures /\ populated /\ rate # One

\* C2: in every variant, after an update that ended in a fetch error, a
\* parse error or a lookup miss, the pair is Unavailable.
C2_ErrorMeansUnavailable ==
    last \in {"status", "ClientError", "ParseError", "miss"} => ~IsAvailable

\* C3: after an update that found both codes of the pair in the table of a
\* status-200 feed, with a non-zero quote rate, the state is
\* round(rate[BASE] / rate[QUOTE], precision) and the pair is Available;
\* {USD: 1.10, JPY: 160.0}, "USD/JPY", precision 4 gives 0.0069.
C3_BaseOverQuote ==
    (/\ last \in {"ok", "miss"}
     /\ FoundBoth
     /\ rates[Codes[2]] # 0) =>
        /\ rate[1] * rates[Codes[2]] = rate[2] * rates[Codes[1]]
        /\ \A p \in Precisions :
              state(p) = Round(<<rates[Codes[1]], rates[Codes[2]]>>, p)
        /\ IsAvailable
        /\ (Codes = <<"USD", "JPY">> /\ rates["USD"] = 110 /\ rates["JPY"] = 16000)
              => state(DefaultPrecision) = 69

\* the example of the claim has been evaluated
C3_Witness ==
    /\ last = "ok"
    /\ Codes = <<"USD", "JPY">>
    /\ rates = [EUR |-> 100, USD |-> 110, JPY |-> 16000]
    /\ state(DefaultPrecision) = 69
    /\ state(2) = 1

\* C4: until the first update that stores a quotient, the sensor is
\* Unavailable; it never shows the placeholder 1.0 as an available reading.
C4_UnavailableUntilPopulated == ~populated => ~IsAvailable

\* C5: in every variant a leaf with a non-numeric rate is skipped: no
\* invocation fails on the ValueError of float().
C5_BadLeafSkipped == \A u \in Slots : exc[u] # "ValueError(float)"

\* C6: the table built by a status-200 refresh maps EUR to exactly 1.0,
\* and so "EUR/X" evaluates to 1.0 / rate[X].
C6_EurIsOne ==
    /\ rates["EUR"] = 100
    /\ (last = "ok" /\ Codes[1] = "EUR") => rate[1] * rates[Codes[2]] = rate[2] * 100

\* C7: with the schedule of exchange_rates, no two invocations of
\* async_update of one sensor are suspended at the HTTP GET or the body
\* read at the same time.
C7_OneFetchInFlight ==
    variant = "exchange_rates" =>
        Cardinality({u \in Slots : pc[u] \in {"get", "text"}}) <= 1

\* C8: the result of a refresh is published in one step.  A step that
\* changes (_rate, _available) is the step in which one invocation leaves
\* its last await before the assignments; a step that changes _rate sets
\* _available from the same lookup; and an invocation that has assigned
\* changes nothing while it leaves its `async with` blocks.
C8_PublishedAtOnce ==
    [][/\ Sensor' # Sensor =>
            \E u \in Slots : /\ pc[u] \in {"get", "text", "unwind"}
                             /\ pc'[u] \in {"close", "idle"}
       /\ rate' # rate =>
            /\ last' \in {"ok", "miss"}
            /\ variant = "exchange_rates" => available' = (last' = "ok")
       /\ \A u \in Slots :
            (pc[u] = "close" /\ pc'[u] # "close") => Sensor' = Sensor
      ]_vars

\* an invocation has published a quotient and is leaving its `async with`
\* blocks while another invocation is suspended
C8_Witness ==
    \E u, w \in Slots :
        /\ pc[u] = "close" /\ pc[w] \in {"get", "text"}
        /\ last = "ok" /\ rate # One

\* C9: a second call of async_update that meets the same response as the
\* first leaves (_rate, _available) as the first call left it, from every
\* reachable state of the sensor and for every outcome.
C9_Idempotent ==
    \A resp \in Responses(variant, currency_pair) :
        LET once == async_update(variant, Sensor, resp)
        IN  async_update(variant, once, resp) = once

\* a call has stored a quotient, no call is running, and there are
\* responses that would change the sensor and responses that would not
C9_Witness ==
    /\ InFlight = {} /\ last = "ok" /\ rate # One
    /\ \E resp \in Responses(variant, currency_pair) :
          async_update(variant, Sensor, resp) # Sensor
    /\ \E resp \in Responses(variant, currency_pair) :
          resp.res.kind = "ok" /\ async_update(variant, Sensor, resp) = Sensor

=============================================================================
